---- MODULE Spec2Model ----
(***************************************************************************)
(* Model of the job engine of bma_client.py: BmaClient.handle_job, the     *)
(* image conversion pipeline (handle_image_conversion_job) and the EXIF    *)
(* grouping (get_exif).                                                    *)
(*                                                                         *)
(* An image is represented by its pixel dimensions and its EXIF            *)
(* orientation tag; pixel contents are not represented.  A string that is  *)
(* split into tokens (an exifread tag key) is a sequence of symbols, a     *)
(* symbol being either the separator " " or an unbreakable word.  Python   *)
(* floats inside Pillow's thumbnail are represented by exact rationals.    *)
(***************************************************************************)
EXTENDS Integers, Sequences, FiniteSets, TLC

VARIABLES pc, job, orig, image, exif, ratio, height, size, tags, idx, grouped, result, log

vars == <<pc, job, orig, image, exif, ratio, height, size, tags, idx, grouped, result, log>>

(* ------------------------------ bounds -------------------------------- *)

\* requested widths range over -1..MaxWidth
MaxWidth == 5
\* source images have sides in 1..MaxSide
MaxSide == 4
\* aspect ratio numerator and denominator range over 0..MaxRatio (0: None or 0)
MaxRatio == 3
\* a file carries at most MaxTags exif tags
MaxTags == 2

(* ---------------------- fractions.Fraction, math ---------------------- *)

Abs(a) == IF a < 0 THEN 0 - a ELSE a

RECURSIVE GCD(_, _)
GCD(a, b) == IF b = 0 THEN a ELSE GCD(b, a % b)

\* Fraction(numerator, denominator): lowest terms, positive denominator
Fraction(n, d) ==
    LET g == GCD(Abs(n), Abs(d))
        s == IF d < 0 THEN 0 - 1 ELSE 1
    IN  [num |-> (s * n) \div g, den |-> (s * d) \div g]

\* the value None where a Fraction is expected
NoRatio == [num |-> 0, den |-> 0]

\* int / Fraction
IntDivFraction(a, f) == Fraction(a * f.den, f.num)

\* math.floor of a Fraction (or of an int, a Fraction of denominator 1)
floor(f) == f.num \div f.den

ceil(f) == 0 - ((0 - f.num) \div f.den)

FracSub(a, b) == Fraction(a.num * b.den - b.num * a.den, a.den * b.den)

FracAbs(a) == [num |-> Abs(a.num), den |-> a.den]

FracLe(a, b) == a.num * b.den <= b.num * a.den

\* Python truthiness of an int-or-None job field, and of a Fraction-or-None
Truthy(x) == x # 0

RatioTruthy(r) == r.num # 0

Max(a, b) == IF a >= b THEN a ELSE b

(* ----------------------------- the inputs ----------------------------- *)

JobTypes == {"ImageConversionJob", "ImageExifExtractionJob", "ThumbnailJob"}

\* the symbols exifread tag keys are written with; " " is the separator
SKIP_EXIF_TAGS == {<<"JPEGThumbnail">>, <<"TIFFThumbnail">>, <<"Filename">>}

\* tag keys a file may carry: keys as exifread produces them ("Image
\* ExifOffset", "GPS GPSVersionID", "JPEGThumbnail", the three-token "Image Tag
\* 0xC4A5" of an unknown tag), and keys of other shapes
ExifKeys ==
    { <<"Image", " ", "ExifOffset">>,
      <<"GPS", " ", "GPSVersionID">>,
      <<"Image", " ", "Tag", " ", "0xC4A5">>,
      <<"Image", " ", "Tag", " ", "ExifOffset">>,
      <<"Image", " ", " ", "ExifOffset">>,
      <<"JPEGThumbnail">>,
      <<"Filename">>,
      <<"Image", " ", "Filename">>,
      <<"Filename", " ", "ExifOffset">>,
      <<"Image">>,
      <<>> }

\* exifread IfdTag values: the printable form and the field type
IfdTags == { [printable |-> "266", field_type |-> 4],
             [printable |-> "[2, 3, 0, 0]", field_type |-> 1] }

\* str(value) of an IfdTag is its printable form
Str(value) == value.printable

RECURSIVE SeqsOver(_, _)
SeqsOver(S, n) ==
    IF n = 0 THEN {<<>>}
    ELSE LET shorter == SeqsOver(S, n - 1)
         IN  shorter \cup {Append(q, x) : q \in {r \in shorter : Len(r) = n - 1}, x \in S}

\* a flat tag dict in iteration order: distinct keys
TagSets ==
    {t \in SeqsOver([key : ExifKeys, value : IfdTags], MaxTags) :
        \A i, j \in 1..Len(t) : t[i].key = t[j].key => i = j}

\* the job descriptors handed to handle_job; the fields a job type does not
\* read are held at one value
Jobs ==
    [job_type : {"ImageConversionJob"}, width : (0 - 1)..MaxWidth,
     aspect_ratio_numerator : 0..MaxRatio, aspect_ratio_denominator : 0..MaxRatio]
    \cup
    [job_type : JobTypes \ {"ImageConversionJob"}, width : {1},
     aspect_ratio_numerator : {0}, aspect_ratio_denominator : {0}]

\* the original file, a decodable image: its decoded size, its orientation tag
\* (0: none) and its exif tags
ImageFiles ==
    [size : (1..MaxSide) \X (1..MaxSide), orientation : 0..8, tags : {<<>>}]

TagFiles == [size : {<<1, 1>>}, orientation : {0}, tags : TagSets]

FilesFor(j) ==
    IF j.job_type = "ImageConversionJob" THEN ImageFiles
    ELSE IF j.job_type = "ImageExifExtractionJob" THEN TagFiles
    ELSE {[size |-> <<1, 1>>, orientation |-> 0, tags |-> <<>>]}

NoJob == [job_type |-> "", width |-> 0, aspect_ratio_numerator |-> 0,
          aspect_ratio_denominator |-> 0]

NoFile == [size |-> <<0, 0>>, orientation |-> 0, tags |-> <<>>]

NoImage == [loaded |-> FALSE, size |-> <<0, 0>>, orientation |-> 0]

NoResult == [kind |-> "none", size |-> <<0, 0>>, exif |-> 0, grouped |-> <<>>, exc |-> ""]

(* ------------------------------- Pillow ------------------------------- *)

Ok(sz) == [ok |-> TRUE, exc |-> "", size |-> sz]

Err(e) == [ok |-> FALSE, exc |-> e, size |-> <<0, 0>>]

\* orientations 5..8 (transpose, rotate 270, transverse, rotate 90) swap the axes
SwapsAxes(orientation) == orientation \in 5..8

\* exif_transpose that resets the tag but leaves the axes as decoded
exif_transpose_no_swap(im) ==
    IF im.orientation \in 2..8
    THEN [loaded |-> TRUE, size |-> im.size, orientation |-> 0]
    ELSE im

\* ImageOps.exif_transpose: a transposed copy with the orientation tag removed,
\* or a plain copy when there is nothing to do
exif_transpose(im) ==
    IF im.orientation \in 2..8
    THEN [loaded |-> TRUE,
          size |-> IF SwapsAxes(im.orientation) THEN <<im.size[2], im.size[1]>> ELSE im.size,
          orientation |-> 0]
    ELSE im

\* Image.resize: the core refuses a target side below 1
resize(sz) == IF sz[1] < 1 \/ sz[2] < 1 THEN Err("ValueError") ELSE Ok(sz)

\* fit that, like thumbnail, leaves an image alone that is within the target
fit_no_upscale(im_size, sz) ==
    IF sz[2] = 0 THEN Err("ZeroDivisionError")
    ELSE IF sz[1] >= im_size[1] /\ sz[2] >= im_size[2] THEN Ok(im_size)
    ELSE resize(sz)

\* ImageOps.fit(image, size): output_ratio = size[0] / size[1], then a centered
\* crop of that ratio is resized to size
fit(im_size, sz) ==
    IF sz[2] = 0 THEN Err("ZeroDivisionError") ELSE resize(sz)

\* round_aspect of Image.thumbnail: of floor(number) and ceil(number) the one
\* with the least key (floor on a tie), at least 1; key_floor and key_ceil are
\* the key function's values at the two
round_aspect(number, key_floor, key_ceil) ==
    Max(IF FracLe(key_floor, key_ceil) THEN floor(number) ELSE ceil(number), 1)

\* key of the branch that rounds the width: abs(aspect - n / y)
KeyWidth(aspect, n, y) == FracAbs(FracSub(aspect, Fraction(n, y)))

\* key of the branch that rounds the height: 0 if n == 0 else abs(aspect - x / n)
KeyHeight(aspect, n, x) ==
    IF n = 0 THEN Fraction(0, 1) ELSE FracAbs(FracSub(aspect, Fraction(x, n)))

\* thumbnail without the test that leaves a small enough image alone
thumbnail_always_resize(im_size, sz) ==
    IF sz[2] = 0 THEN Err("ZeroDivisionError") ELSE resize(sz)

\* Image.thumbnail(size) on an image of size im_size: the image's new size
thumbnail(im_size, sz) ==
    LET x == sz[1]
        y == sz[2]
        w == im_size[1]
        h == im_size[2]
    IN  IF x >= w /\ y >= h THEN Ok(im_size)
        ELSE IF y = 0 THEN Err("ZeroDivisionError")
        ELSE LET aspect == Fraction(w, h)
                 nx == Fraction(y * w, h)
                 ny == Fraction(x * h, w)
                 new == IF FracLe(aspect, Fraction(x, y))
                        THEN << round_aspect(nx, KeyWidth(aspect, floor(nx), y),
                                                 KeyWidth(aspect, ceil(nx), y)), y >>
                        ELSE << x, round_aspect(ny, KeyHeight(aspect, floor(ny), x),
                                                    KeyHeight(aspect, ceil(ny), x)) >>
             IN  IF new = im_size THEN Ok(im_size) ELSE resize(new)

(* ------------------------------ get_exif ------------------------------ *)

\* str.split(" "): the tokens between the separators, empty ones included
RECURSIVE split(_)
split(s) ==
    IF \A i \in 1..Len(s) : s[i] # " " THEN <<s>>
    ELSE LET i == CHOOSE k \in 1..Len(s) :
                      s[k] = " " /\ \A m \in 1..(k - 1) : s[m] # " "
         IN  <<SubSeq(s, 1, i - 1)>> \o split(SubSeq(s, i + 1, Len(s)))

\* a skip test that skips nothing
Skipped_nothing(tag) == FALSE

\* tag in SKIP_EXIF_TAGS
Skipped(tag) == tag \in SKIP_EXIF_TAGS

\* key[0] in place of key[-1]
LastOf_first(key) == key[1]

\* key[-1] of a non-empty list
LastOf(key) == key[Len(key)]

\* d[k] = v on a dict
DictSet(d, k, v) == [x \in (DOMAIN d) \cup {k} |-> IF x = k THEN v ELSE d[x]]

\* the body of the loop of get_exif for one (tag, value) item; IndexError is
\* what key[-1] raises on the empty list
GroupTag(g, tag, value) ==
    IF Skipped(tag) THEN [ok |-> TRUE, grouped |-> g]
    ELSE LET tokens == split(tag)
             group == Head(tokens)
             key == Tail(tokens)
         IN  IF key = <<>> THEN [ok |-> FALSE, grouped |-> g]
             ELSE LET g1 == IF group \in DOMAIN g THEN g ELSE DictSet(g, group, <<>>)
                  IN  [ok |-> TRUE,
                       grouped |-> DictSet(g1, group, DictSet(g1[group], LastOf(key), Str(value)))]

(* ----------------------------- handle_job ----------------------------- *)

\* a dispatch whose second test is an else
Dispatch_else_exif(job_type) ==
    IF job_type = "ImageConversionJob" THEN "open" ELSE "exif_read"

\* the branch handle_job takes for a job type
Dispatch(job_type) ==
    IF job_type = "ImageConversionJob" THEN "open"
    ELSE IF job_type = "ImageExifExtractionJob" THEN "exif_read"
    ELSE "unsupported"

Locals == <<image, exif, ratio, height, size, tags, idx, grouped>>

ClearLocals ==
    /\ image' = NoImage
    /\ exif' = 0
    /\ ratio' = NoRatio
    /\ height' = 0
    /\ size' = <<0, 0>>
    /\ tags' = <<>>
    /\ idx' = 0
    /\ grouped' = <<>>

Init ==
    /\ pc = "idle"
    /\ job = NoJob
    /\ orig = NoFile
    /\ image = NoImage
    /\ exif = 0
    /\ ratio = NoRatio
    /\ height = 0
    /\ size = <<0, 0>>
    /\ tags = <<>>
    /\ idx = 0
    /\ grouped = <<>>
    /\ result = NoResult
    /\ log = ""

\* handle_job(job, orig): dispatch on job["job_type"]
handle_job ==
    /\ pc = "idle"
    /\ \E j \in Jobs : \E o \in FilesFor(j) :
        /\ job' = j
        /\ orig' = o
        /\ IF Dispatch(j.job_type) = "unsupported"
           THEN /\ log' = "Unsupported job type"
                /\ result' = [NoResult EXCEPT !.kind = "None"]
                /\ pc' = "returned"
           ELSE /\ log' = ""
                /\ result' = NoResult
                /\ pc' = Dispatch(j.job_type)
    /\ UNCHANGED Locals

\* image = Image.open(orig)
OpenImage ==
    /\ pc = "open"
    /\ image' = [loaded |-> TRUE, size |-> orig.size, orientation |-> orig.orientation]
    /\ pc' = "transpose"
    /\ UNCHANGED <<job, orig, exif, ratio, height, size, tags, idx, grouped, result, log>>

\* image = ImageOps.exif_transpose(image)
Transpose ==
    /\ pc = "transpose"
    /\ image' = exif_transpose(image)
    /\ pc' = "getexif"
    /\ UNCHANGED <<job, orig, exif, ratio, height, size, tags, idx, grouped, result, log>>

\* exif = image.getexif(): of the exif data the orientation tag is kept
GetExif ==
    /\ pc = "getexif"
    /\ exif' = image.orientation
    /\ pc' = "calc"
    /\ UNCHANGED <<job, orig, image, ratio, height, size, tags, idx, grouped, result, log>>

\* the ratio with numerator and denominator exchanged
CustomRatio_inverted(num, den) == Fraction(den, num)

\* the ratio of the custom branch
CustomRatio(num, den) == Fraction(num, den)

\* the height of the natural branch: floor(width / Fraction(*image.size))
NaturalHeight(width, im_size) ==
    floor(IntDivFraction(width, Fraction(im_size[1], im_size[2])))

\* the size and ratio calculation
CalcSize ==
    /\ pc = "calc"
    /\ IF Truthy(job.aspect_ratio_numerator) /\ Truthy(job.aspect_ratio_denominator)
       THEN /\ ratio' = CustomRatio(job.aspect_ratio_numerator, job.aspect_ratio_denominator)
            /\ height' = floor(IntDivFraction(job.width, ratio'))
       ELSE /\ ratio' = NoRatio
            /\ height' = NaturalHeight(job.width, image.size)
    /\ size' = <<floor(Fraction(job.width, 1)), floor(Fraction(height', 1))>>
    /\ pc' = "resize"
    /\ UNCHANGED <<job, orig, image, exif, tags, idx, grouped, result, log>>

\* what the crop/scale call does to the image: ImageOps.fit or Image.thumbnail
Converted(r, im_size, sz) ==
    IF RatioTruthy(r) THEN fit(im_size, sz) ELSE thumbnail(im_size, sz)

\* the conversion; an exception of the library leaves handle_job
Resize ==
    /\ pc = "resize"
    /\ LET out == Converted(ratio, image.size, size)
       IN  IF out.ok
           THEN /\ image' = [image EXCEPT !.size = out.size]
                /\ pc' = "conv_return"
                /\ UNCHANGED <<exif, ratio, height, size, tags, idx, grouped, result>>
           ELSE /\ result' = [NoResult EXCEPT !.kind = "raised", !.exc = out.exc]
                /\ pc' = "returned"
                /\ ClearLocals
    /\ UNCHANGED <<job, orig, log>>

\* return image, exif
ConvReturn ==
    /\ pc = "conv_return"
    /\ result' = [NoResult EXCEPT !.kind = "image", !.size = image.size, !.exif = exif]
    /\ pc' = "returned"
    /\ ClearLocals
    /\ UNCHANGED <<job, orig, log>>

\* tags = exifread.process_file(f, details=True); grouped = {}
ExifRead ==
    /\ pc = "exif_read"
    /\ tags' = orig.tags
    /\ grouped' = <<>>
    /\ idx' = 1
    /\ pc' = "exif_loop"
    /\ UNCHANGED <<job, orig, image, exif, ratio, height, size, result, log>>

\* one iteration of for tag, value in tags.items()
ExifLoop ==
    /\ pc = "exif_loop"
    /\ idx <= Len(tags)
    /\ LET out == GroupTag(grouped, tags[idx].key, tags[idx].value)
       IN  IF out.ok
           THEN /\ grouped' = out.grouped
                /\ idx' = idx + 1
                /\ pc' = "exif_loop"
                /\ UNCHANGED <<tags, result>>
           ELSE /\ result' = [NoResult EXCEPT !.kind = "raised", !.exc = "IndexError"]
                /\ pc' = "exif_raised"
                /\ UNCHANGED <<tags, idx, grouped>>
    /\ UNCHANGED <<job, orig, image, exif, ratio, height, size, log>>

\* the IndexError leaves get_exif and handle_job
ExifRaise ==
    /\ pc = "exif_raised"
    /\ pc' = "returned"
    /\ ClearLocals
    /\ UNCHANGED <<job, orig, result, log>>

\* return grouped
ExifReturn ==
    /\ pc = "exif_loop"
    /\ idx > Len(tags)
    /\ result' = [NoResult EXCEPT !.kind = "grouped", !.grouped = grouped]
    /\ pc' = "returned"
    /\ ClearLocals
    /\ UNCHANGED <<job, orig, log>>

\* the caller has taken the result (or the exception) of the call; the job
\* descriptor and the buffers of the call are gone and the client is called again
NextCall ==
    /\ pc = "returned"
    /\ pc' = "idle"
    /\ job' = NoJob
    /\ orig' = NoFile
    /\ result' = NoResult
    /\ log' = ""
    /\ UNCHANGED Locals

Next ==
    \/ handle_job
    \/ OpenImage
    \/ Transpose
    \/ GetExif
    \/ CalcSize
    \/ Resize
    \/ ConvReturn
    \/ ExifRead
    \/ ExifLoop
    \/ ExifRaise
    \/ ExifReturn
    \/ NextCall

Spec == Init /\ [][Next]_vars

(* ------------------------ vocabulary of the claims -------------------- *)

IsConversion == job.job_type = "ImageConversionJob"

IsExif == job.job_type = "ImageExifExtractionJob"

\* both aspect ratio fields supplied (positive integers)
CustomMode == job.aspect_ratio_numerator > 0 /\ job.aspect_ratio_denominator > 0

\* no aspect ratio supplied
NoAspect == job.aspect_ratio_numerator = 0 /\ job.aspect_ratio_denominator = 0

\* the dimensions of the original once it is upright
UprightSize ==
    IF orig.orientation \in {5, 6, 7, 8} THEN <<orig.size[2], orig.size[1]>> ELSE orig.size

\* the target size has been calculated and the conversion not yet left
SizeResolved == pc \in {"resize", "conv_return"}

ConversionStages == {"open", "transpose", "getexif", "calc", "resize", "conv_return"}

ExifStages == {"exif_read", "exif_loop", "exif_raised"}

HasSpace(k) == \E i \in 1..Len(k) : k[i] = " "

\* the symbols of a key before its first separator, and after its last
FirstToken(k) ==
    LET i == CHOOSE m \in 1..Len(k) : k[m] = " " /\ \A n \in 1..(m - 1) : k[n] # " "
    IN  [x \in 1..(i - 1) |-> k[x]]

LastToken(k) ==
    LET i == CHOOSE m \in 1..Len(k) : k[m] = " " /\ \A n \in (m + 1)..Len(k) : k[n] # " "
    IN  [x \in 1..(Len(k) - i) |-> k[i + x]]

\* the positions of the input's keys that are not in the skip list
NonSkipped == {i \in 1..Len(orig.tags) : orig.tags[i].key \notin SKIP_EXIF_TAGS}

GroupedReturned == pc = "returned" /\ result.kind = "grouped"

(* -------------------------------- claims ------------------------------ *)

\* C1: in custom-ratio mode with W > 0, n > 0, d > 0 the resolved target size
\* is exactly (W, floor(W*d/n)), whatever the source image
C1_CustomRatioSize ==
    (IsConversion /\ SizeResolved /\ CustomMode /\ job.width > 0)
        => size = << job.width,
                     (job.width * job.aspect_ratio_denominator) \div job.aspect_ratio_numerator >>

C1_Witness ==
    /\ pc = "resize"
    /\ job.width = 3 /\ job.aspect_ratio_numerator = 2 /\ job.aspect_ratio_denominator = 1
    /\ size = <<3, 1>>

\* C2: in natural-ratio mode with W > 0 the resolved target size is
\* (W, floor(W*h0/w0)) with (w0, h0) the size of the upright image, and the
\* image whose size is read has already been made upright
C2_NaturalRatioSize ==
    /\ (IsConversion /\ pc \in {"calc", "resize"}) => image.size = UprightSize
    /\ (IsConversion /\ SizeResolved /\ NoAspect /\ job.width > 0)
          => size = <<job.width, (job.width * UprightSize[2]) \div UprightSize[1]>>

C2_Witness ==
    /\ pc = "resize"
    /\ NoAspect /\ job.width = 2
    /\ orig.size = <<3, 2>> /\ orig.orientation = 6
    /\ size = <<2, 3>>

\* C3: a conversion job whose width is <= 0 is rejected with InvalidDimension
\* before the source is opened: no decode, transform, resize or result
C3_RejectedBeforeDecode ==
    (IsConversion /\ job.width <= 0)
        => /\ ~image.loaded
           /\ pc \notin (ConversionStages \ {"open"})
           /\ pc = "returned" => (result.kind = "raised" /\ result.exc = "InvalidDimension")

\* C4 as claimed: with W > 0 and resolved height H > 0 the returned image has
\* exactly the resolved size, in both modes
C4_OutputIsResolvedSize ==
    (pc = "conv_return" /\ job.width > 0 /\ size[2] > 0) => image.size = size

\* C4 as amended: with W > 0 and H > 0 the crop-fit output has exactly the
\* resolved size (also when W exceeds the source width); the thumbnail output
\* fits within the resolved size: it is the upright source unchanged when W is
\* at least the source width, and otherwise has height H and a width <= W
C4_OutputWithinResolvedSize ==
    (pc = "conv_return" /\ job.width > 0 /\ size[2] > 0)
        => IF CustomMode
           THEN image.size = size
           ELSE /\ image.size[1] <= size[1]
                /\ image.size[2] <= size[2]
                /\ job.width >= UprightSize[1] => image.size = UprightSize
                /\ job.width < UprightSize[1] => image.size[2] = size[2]

C4_Witness ==
    /\ pc = "conv_return"
    /\ CustomMode
    /\ job.width > UprightSize[1]
    /\ size[2] > 0
    /\ image.size = size

\* C5: in natural-ratio mode with W > 0 the output is in neither axis larger
\* than the (upright) source
C5_ThumbnailNeverUpscales ==
    (pc = "conv_return" /\ ~CustomMode /\ job.width > 0)
        => (image.size[1] <= UprightSize[1] /\ image.size[2] <= UprightSize[2])

C5_Witness ==
    /\ pc = "conv_return"
    /\ ~CustomMode
    /\ job.width > UprightSize[1]
    /\ image.size = UprightSize

\* C6 as claimed: no entry of the skip list appears in the grouped output,
\* neither as a group name nor as a tag name of any group
C6_SkipWordsNeverAppear ==
    GroupedReturned
        => \A k \in SKIP_EXIF_TAGS :
              /\ k \notin DOMAIN result.grouped
              /\ \A g \in DOMAIN result.grouped : k \notin DOMAIN result.grouped[g]

\* C6 as amended: a key that is, as a whole, an entry of the skip list
\* contributes nothing: it never stops the extraction, and every (group, tag)
\* of the output comes from a key that is not in the skip list
C6_SkippedKeysContributeNothing ==
    /\ pc = "exif_raised" => tags[idx].key \notin SKIP_EXIF_TAGS
    /\ GroupedReturned
          => \A g \in DOMAIN result.grouped : \A t \in DOMAIN result.grouped[g] :
                \E i \in NonSkipped :
                    /\ HasSpace(orig.tags[i].key)
                    /\ FirstToken(orig.tags[i].key) = g
                    /\ LastToken(orig.tags[i].key) = t

C6_Witness ==
    /\ GroupedReturned
    /\ \E i \in 1..Len(orig.tags) : orig.tags[i].key = <<"Filename">>
    /\ <<"Image">> \in DOMAIN result.grouped
    /\ <<"Filename">> \in DOMAIN result.grouped[<<"Image">>]

\* C7: a malformed key (no group or no tag token) is skipped alone: get_exif
\* still returns a grouped result holding every well-formed, non-skipped tag
C7_MalformedKeySkipped ==
    (IsExif /\ pc = "returned")
        => /\ result.kind = "grouped"
           /\ \A i \in NonSkipped :
                 HasSpace(orig.tags[i].key)
                    => /\ FirstToken(orig.tags[i].key) \in DOMAIN result.grouped
                       /\ LastToken(orig.tags[i].key)
                             \in DOMAIN result.grouped[FirstToken(orig.tags[i].key)]

\* C8: handle_job dispatches on job_type only: a conversion job runs the
\* conversion, an extraction job the extraction, any other type runs neither,
\* raises nothing, returns None and is logged as unsupported, and the client
\* takes the next job
C8_Dispatch ==
    /\ IsConversion
          => /\ pc \in ConversionStages \cup {"returned"}
             /\ pc = "returned" => result.kind \in {"image", "raised"}
    /\ IsExif
          => /\ pc \in ExifStages \cup {"returned"}
             /\ ~image.loaded
             /\ pc = "returned" => result.kind \in {"grouped", "raised"}
    /\ (job # NoJob /\ ~IsConversion /\ ~IsExif)
          => /\ pc = "returned"
             /\ result.kind = "None"
             /\ log = "Unsupported job type"
             /\ ~image.loaded /\ tags = <<>> /\ grouped = <<>>
    /\ log # "" => (~IsConversion /\ ~IsExif)
    /\ pc = "returned" => ENABLED NextCall
    /\ pc = "idle" => ENABLED handle_job

C8_Witness ==
    /\ pc = "returned"
    /\ job.job_type = "ThumbnailJob"
    /\ result.kind = "None"
    /\ log = "Unsupported job type"

\* C9: for a tag set whose non-skipped keys all have a group and a tag token,
\* the output holds exactly the (first token, last token) pairs of the
\* non-skipped keys, each with the stringified value of the last key iterated
\* that has this pair
C9_GroupedExactly ==
    (IsExif /\ pc = "returned" /\ \A i \in NonSkipped : HasSpace(orig.tags[i].key))
        => /\ result.kind = "grouped"
           /\ \A i \in NonSkipped :
                 /\ FirstToken(orig.tags[i].key) \in DOMAIN result.grouped
                 /\ LastToken(orig.tags[i].key)
                       \in DOMAIN result.grouped[FirstToken(orig.tags[i].key)]
           /\ \A g \in DOMAIN result.grouped : \A t \in DOMAIN result.grouped[g] :
                 \E i \in NonSkipped :
                    /\ FirstToken(orig.tags[i].key) = g
                    /\ LastToken(orig.tags[i].key) = t
                    /\ result.grouped[g][t] = orig.tags[i].value.printable
                    /\ \A j \in NonSkipped :
                          (FirstToken(orig.tags[j].key) = g /\ LastToken(orig.tags[j].key) = t)
                             => j <= i

C9_Witness ==
    /\ GroupedReturned
    /\ Len(orig.tags) = 2
    /\ orig.tags[1].key = <<"Image", " ", "ExifOffset">>
    /\ orig.tags[1].value.printable = "[2, 3, 0, 0]"
    /\ orig.tags[2].key = <<"Image", " ", "Tag", " ", "ExifOffset">>
    /\ orig.tags[2].value.printable = "266"
    /\ DOMAIN result.grouped = {<<"Image">>}
    /\ DOMAIN result.grouped[<<"Image">>] = {<<"ExifOffset">>}
    /\ result.grouped[<<"Image">>][<<"ExifOffset">>] = "266"

\* C10: a conversion job with W > 0 whose resolved height is 0 is rejected
\* with DegenerateGeometry: the crop/scale call is never made with a
\* zero-height target
C10_ZeroHeightRejected ==
    (IsConversion /\ job.width > 0)
        => /\ ~(pc = "resize" /\ size[2] = 0)
           /\ (pc = "returned" /\ result.kind = "raised") => result.exc = "DegenerateGeometry"

====
